---- MODULE Spec2Model ----
(***************************************************************************)
(* Model of src/src/app.py (poke-compare): the serial retrieval of the     *)
(* catalog from the remote API (get_pokemon_list), the percentile analysis *)
(* with its CSV output (analyze_pokemon_data), the point lookup            *)
(* (display_pokemon), and the pure percentile/statistics functions.        *)
(*                                                                         *)
(* Numbers: a Python float is modelled by the exact rational it stands    *)
(* for, in lowest terms; nan and None are values of the same record shape. *)
(***************************************************************************)
EXTENDS Integers, Sequences, FiniteSets, TLC

VARIABLES
    pc,             \* position of the (single) asyncio task
    outcome,        \* how the last finished call ended
    pokemon_list,   \* the caller's PokemonList object (main, line 252), or NoList
    fetched,        \* get_pokemon_list: its local pokemon_list (line 149)
    pokemon_id,     \* get_pokemon_list: its loop variable (line 151)
    exchanges,      \* the requests sent in this retrieval, with their answers
    heights,        \* analyze_pokemon_data: local heights (line 178)
    weights,        \* analyze_pokemon_data: local weights (line 179)
    height_stats,   \* analyze_pokemon_data: local height_stats (line 181)
    weight_stats,   \* analyze_pokemon_data: local weight_stats (line 182)
    percentiles_csv,\* the file percentiles.csv: whether it exists, and its lines
    prev_csv,       \* what the file held when the analysis under way, or just
                    \* ended, opened it with "w" (Absent in any other call)
    runs_on_list,   \* analyze_pokemon_data calls made on the current object
    pct_data,       \* argument data of a direct calculate_percentile call
    pct_value,      \* argument value of a direct calculate_percentile call
    pct_result      \* its result

vars == <<pc, outcome, pokemon_list, fetched, pokemon_id, exchanges, heights,
          weights, height_stats, weight_stats, percentiles_csv, prev_csv,
          runs_on_list, pct_data, pct_value, pct_result>>

retrieval_vars == <<fetched, pokemon_id, exchanges>>
analysis_vars == <<heights, weights, height_stats, weight_stats>>
pct_vars == <<pct_data, pct_value, pct_result>>

----------------------------------------------------------------------------
(* Bounds and input sets *)

\* The highest Pokemon id (898 in the program, bounded here).
MAX_POKEMON == 2
\* Longest list handed to the PokemonList constructor directly.
MaxLen == 1
\* Calls of analyze_pokemon_data on one PokemonList object.
MaxRuns == 2
\* Longest population of a direct calculate_percentile call.
MaxPop == 3

\* Heights and weights the remote source (or a caller) supplies.
HeightValues == {1, 2}
WeightValues == {1, 2}
Names == {"bulbasaur"}
\* The ids a response that does not echo the requested id may carry instead.
StaleIds == {1}
\* Ids of records built by a caller directly.
InputIds == {1}
\* Values of the populations of a direct calculate_percentile call.
PopValues == {1, 2, 3}
\* The ways a fetch fails: non-JSON 404 body, malformed body, connection
\* failure, no answer within the client's total timeout.
FetchErrors == {"NotFound", "Decode", "Network", "Timeout"}

\* Python values: a float, nan or None.
NoneVal == [kind |-> "None", num |-> 0, den |-> 0]
NaN == [kind |-> "nan", num |-> 0, den |-> 0]
\* The name pokemon_list is not bound to an object.
NoList == [unbound |-> TRUE]
\* The attribute _index is not set.
NoIndex == 0 - 1
\* percentiles.csv does not exist.
Absent == [exists |-> FALSE, lines |-> <<>>]

RECURSIVE GCD(_, _)
GCD(a, b) == IF b = 0 THEN a ELSE GCD(b, a % b)

Rat(num, den) ==
    LET g == GCD(num, den)
    IN  [kind |-> "float", num |-> num \div g, den |-> den \div g]

----------------------------------------------------------------------------
(* Pokemon and PokemonList *)

Pokemon(poke_id, name, height, weight) ==
    [poke_id |-> poke_id, name |-> name, height |-> height, weight |-> weight,
     height_percentile |-> NoneVal, weight_percentile |-> NoneVal]

\* _index does not exist before the first __iter__.
PokemonList(pokemons) == [pokemons |-> pokemons, index |-> NoIndex]

\* An __iter__ that keeps the cursor of the previous iteration.
IterKeepCursor(l) == IF l.index = NoIndex THEN [l EXCEPT !.index = 0] ELSE l

\* __iter__: the one cursor of the list goes back to the first record.
Iter(l) == [l EXCEPT !.index = 0]

\* __next__: the test that precedes StopIteration.
HasNext(l) == l.index < Len(l.pokemons)

\* All heights but the last one.
PartialHeights(l) == [i \in 1..(Len(l.pokemons) - 1) |-> l.pokemons[i].height]

Heights(l) == [i \in 1..Len(l.pokemons) |-> l.pokemons[i].height]

Weights(l) == [i \in 1..Len(l.pokemons) |-> l.pokemons[i].weight]

\* A list extended at its front.
PrependPokemon(list, p) == <<p>> \o list

\* pokemon_list.append(...)
AppendPokemon(list, p) == Append(list, p)

----------------------------------------------------------------------------
(* calculate_percentile and calculate_statistics *)

RECURSIVE Sum(_)
Sum(s) == IF s = <<>> THEN 0 ELSE Head(s) + Sum(Tail(s))

Squares(s) == [i \in DOMAIN s |-> s[i] * s[i]]

CountLess(a, score) == Cardinality({i \in DOMAIN a : a[i] < score})

CountLessEq(a, score) == Cardinality({i \in DOMAIN a : a[i] <= score})

\* scipy's kind="weak": the share of values <= score.
percentileofscore_weak(a, score) == Rat(CountLessEq(a, score) * 100, Len(a))

\* scipy's kind="mean": the average of the strict and the weak share.
percentileofscore_mean(a, score) ==
    Rat((CountLess(a, score) + CountLessEq(a, score)) * 50, Len(a))

\* scipy.stats.percentileofscore(a, score) with its default kind="rank", for
\* a non-empty a: (left + right + (1 if right > left else 0)) * 50 / n.
percentileofscore(a, score) ==
    LET n == Len(a)
        left == CountLess(a, score)
        right == CountLessEq(a, score)
        plus1 == IF right > left THEN 1 ELSE 0
    IN  Rat((left + right + plus1) * 50, n)

\* The values calculate_percentile(data, value) can return. For an empty data
\* no exception is raised: the library returns nan (scipy >= 1.9) or 100.0
\* (older releases), depending on the installed build.
calculate_percentile(data, value) ==
    IF Len(data) = 0
    THEN {NaN, Rat(100, 1)}
    ELSE {percentileofscore(data, value)}

Median(data) ==
    LET n == Len(data)
        sorted == SortSeq(data, LAMBDA x, y : x < y)
    IN  IF n % 2 = 1
        THEN Rat(sorted[(n + 1) \div 2], 1)
        ELSE Rat(sorted[n \div 2] + sorted[n \div 2 + 1], 2)

Variance(data) ==
    LET n == Len(data)
    IN  Rat(n * Sum(Squares(data)) - Sum(data) * Sum(data), n * n)

\* The square root of a float, left unevaluated.
Sqrt(x) == [x EXCEPT !.kind = "sqrt"]

\* No statistics computed.
NoStats ==
    [mean |-> NoneVal, median |-> NoneVal, std_dev |-> NoneVal,
     variance |-> NoneVal]

\* numpy's mean, median, std and var of an empty list are nan (with a
\* RuntimeWarning), not an exception.
calculate_statistics(data) ==
    IF Len(data) = 0
    THEN [mean |-> NaN, median |-> NaN, std_dev |-> NaN, variance |-> NaN]
    ELSE [mean |-> Rat(Sum(data), Len(data)),
          median |-> Median(data),
          std_dev |-> Sqrt(Variance(data)),
          variance |-> Variance(data)]

----------------------------------------------------------------------------
(* percentiles.csv: a line is the tuple of its comma-separated cells *)

Header == <<"poke_id", "height_percentile", "weight_percentile">>

\* str() of a percentile inside the f-string.
FormatFloat(x) ==
    IF x.kind = "None" THEN "None"
    ELSE IF x.kind = "nan" THEN "nan"
    ELSE ToString(x.num) \o "/" \o ToString(x.den)

\* f"{pokemon.poke_id},{pokemon.height_percentile},{pokemon.weight_percentile}\n"
FormatRow(p) ==
    <<ToString(p.poke_id), FormatFloat(p.height_percentile),
      FormatFloat(p.weight_percentile)>>

\* open("percentiles.csv", "a") keeps what the file holds.
OpenAppend(csv) == [exists |-> TRUE, lines |-> csv.lines]

\* open("percentiles.csv", "w") creates the file or truncates it.
OpenWrite(csv) == [exists |-> TRUE, lines |-> <<>>]

\* await f.write(line)
WriteLine(csv, line) == [csv EXCEPT !.lines = Append(@, line)]

\* pd.read_csv raises for a missing file and for a file without a header
\* line; "" says that it does not raise.
ReadCsvError(csv) ==
    IF ~csv.exists THEN "FileNotFoundError"
    ELSE IF Len(csv.lines) = 0 THEN "EmptyDataError"
    ELSE ""

\* The DataFrame: the first line names the columns, the others are the rows.
ReadCsv(csv) == [columns |-> Head(csv.lines), rows |-> Tail(csv.lines)]

Column(df, name) == CHOOSE j \in DOMAIN df.columns : df.columns[j] = name

\* The integer a cell of an integer column is parsed to.
ParseInt(cell) == CHOOSE n \in 0..(MAX_POKEMON + 1) : ToString(n) = cell

\* df[df["poke_id"] != pokemon_id]
SelectOthers(df, id) ==
    SelectSeq(df.rows, LAMBDA r : ParseInt(r[Column(df, "poke_id")]) # id)

\* df[df["poke_id"] == pokemon_id]
SelectById(df, id) ==
    SelectSeq(df.rows, LAMBDA r : ParseInt(r[Column(df, "poke_id")]) = id)

\* f"Pokemon with ID {pokemon_id} not found."
NotFoundMessage(id) == <<"Pokemon with ID", ToString(id), "not found.">>

----------------------------------------------------------------------------
(* Outcomes of calls *)

Returned(op, arg, printed) ==
    [op |-> op, result |-> "returned", error |-> "", arg |-> arg,
     printed |-> printed]

Raised(op, arg, error) ==
    [op |-> op, result |-> "raised", error |-> error, arg |-> arg,
     printed |-> <<>>]

NoOutcome ==
    [op |-> "", result |-> "", error |-> "", arg |-> 0, printed |-> <<>>]

----------------------------------------------------------------------------
(* Inputs *)

\* The JSON bodies the remote source may answer the request for id k with.
Bodies(k) ==
    [id : {k} \cup StaleIds, name : Names, height : HeightValues,
     weight : WeightValues]

\* The body of an exchange that failed.
NoBody == [id |-> 0, name |-> "", height |-> 0, weight |-> 0]

InputPokemons ==
    {Pokemon(i, n, h, w) : i \in InputIds, n \in Names, h \in HeightValues,
                           w \in WeightValues}

InputLists == UNION {[1..n -> InputPokemons] : n \in 0..MaxLen}

DisplayIds == 1..(MAX_POKEMON + 1)

PopSeqs == UNION {[1..n -> PopValues] : n \in 0..MaxPop}

----------------------------------------------------------------------------
(* Initial state *)

Init ==
    /\ pc = "idle"
    /\ outcome = NoOutcome
    /\ pokemon_list = NoList
    /\ fetched = <<>>
    /\ pokemon_id = 0
    /\ exchanges = <<>>
    /\ heights = <<>>
    /\ weights = <<>>
    /\ height_stats = NoStats
    /\ weight_stats = NoStats
    /\ percentiles_csv = Absent
    /\ prev_csv = Absent
    /\ runs_on_list = 0
    /\ pct_data = <<>>
    /\ pct_value = 0
    /\ pct_result = NoneVal

----------------------------------------------------------------------------
(* get_pokemon_list *)

\* The call (lines 148-150). The caller binds pokemon_list to the result only
\* (main, line 252): no list is held while the retrieval runs.
GetPokemonListCall ==
    /\ pc = "idle"
    /\ pc' = "get_pokemon_list"
    /\ fetched' = <<>>
    /\ pokemon_id' = 1
    /\ exchanges' = <<>>
    /\ pokemon_list' = NoList
    /\ runs_on_list' = 0
    /\ outcome' = NoOutcome
    /\ prev_csv' = Absent
    /\ UNCHANGED <<analysis_vars, percentiles_csv, pct_vars>>

\* One iteration of the loop (lines 151-160) whose request is answered with a
\* JSON body: the record is built from the body and appended.
FetchOk ==
    /\ pc = "get_pokemon_list"
    /\ pokemon_id <= MAX_POKEMON
    /\ \E data \in Bodies(pokemon_id) :
          /\ fetched' = AppendPokemon(fetched,
                 Pokemon(data.id, data.name, data.height, data.weight))
          /\ exchanges' = Append(exchanges,
                 [requested |-> pokemon_id, status |-> "ok", body |-> data])
    /\ pokemon_id' = pokemon_id + 1
    /\ UNCHANGED <<pc, outcome, pokemon_list, analysis_vars, percentiles_csv,
                   prev_csv, runs_on_list, pct_vars>>

\* One iteration whose request fails: session.get or response.json() raises,
\* nothing catches it, and the exception leaves get_pokemon_list.
FetchFail ==
    /\ pc = "get_pokemon_list"
    /\ pokemon_id <= MAX_POKEMON
    /\ \E e \in FetchErrors :
          /\ exchanges' = Append(exchanges,
                 [requested |-> pokemon_id, status |-> e, body |-> NoBody])
          /\ outcome' = Raised("get_pokemon_list", pokemon_id, e)
    /\ pc' = "idle"
    /\ fetched' = <<>>
    /\ pokemon_id' = 0
    /\ UNCHANGED <<pokemon_list, analysis_vars, percentiles_csv, prev_csv,
                   runs_on_list, pct_vars>>

\* The loop is over: return PokemonList(pokemon_list) (line 161).
GetPokemonListReturn ==
    /\ pc = "get_pokemon_list"
    /\ pokemon_id > MAX_POKEMON
    /\ pokemon_list' = PokemonList(fetched)
    /\ outcome' = Returned("get_pokemon_list", 0, <<>>)
    /\ pc' = "idle"
    /\ fetched' = <<>>
    /\ pokemon_id' = 0
    /\ UNCHANGED <<exchanges, analysis_vars, percentiles_csv, prev_csv,
                   runs_on_list, pct_vars>>

\* A caller builds a PokemonList itself (as read_pokemon_from_csv does).
NewPokemonList ==
    /\ pc = "idle"
    /\ \E pokemons \in InputLists : pokemon_list' = PokemonList(pokemons)
    /\ runs_on_list' = 0
    /\ exchanges' = <<>>
    /\ outcome' = NoOutcome
    /\ prev_csv' = Absent
    /\ UNCHANGED <<pc, fetched, pokemon_id, analysis_vars, percentiles_csv,
                   pct_vars>>

----------------------------------------------------------------------------
(* analyze_pokemon_data *)

\* Lines 178-184: the populations and the statistics are computed from the
\* whole list, then the first for loop starts.
AnalyzeCall ==
    /\ pc = "idle"
    /\ pokemon_list # NoList
    /\ runs_on_list < MaxRuns
    /\ heights' = Heights(pokemon_list)
    /\ weights' = Weights(pokemon_list)
    /\ height_stats' = calculate_statistics(Heights(pokemon_list))
    /\ weight_stats' = calculate_statistics(Weights(pokemon_list))
    /\ pokemon_list' = Iter(pokemon_list)
    /\ runs_on_list' = runs_on_list + 1
    /\ outcome' = NoOutcome
    /\ pc' = "percentiles"
    /\ prev_csv' = Absent
    /\ UNCHANGED <<retrieval_vars, percentiles_csv, pct_vars>>

\* One iteration of the first loop (lines 184-186).
PercentileStep ==
    /\ pc = "percentiles"
    /\ HasNext(pokemon_list)
    /\ LET i == pokemon_list.index + 1
           pokemon == pokemon_list.pokemons[i]
       IN  \E hp \in calculate_percentile(heights, pokemon.height),
              wp \in calculate_percentile(weights, pokemon.weight) :
              pokemon_list' =
                  [pokemon_list EXCEPT !.pokemons[i].height_percentile = hp,
                                       !.pokemons[i].weight_percentile = wp,
                                       !.index = i]
    /\ UNCHANGED <<pc, outcome, retrieval_vars, analysis_vars, percentiles_csv,
                   prev_csv, runs_on_list, pct_vars>>

\* The first loop ends (StopIteration) and the file is opened (line 189).
OpenCsv ==
    /\ pc = "percentiles"
    /\ ~HasNext(pokemon_list)
    /\ prev_csv' = percentiles_csv
    /\ percentiles_csv' = OpenWrite(percentiles_csv)
    /\ pc' = "header"
    /\ UNCHANGED <<outcome, pokemon_list, retrieval_vars, analysis_vars,
                   runs_on_list, pct_vars>>

\* The header is written (line 190) and the second for loop starts (line 191).
WriteHeader ==
    /\ pc = "header"
    /\ percentiles_csv' = WriteLine(percentiles_csv, Header)
    /\ pokemon_list' = Iter(pokemon_list)
    /\ pc' = "rows"
    /\ UNCHANGED <<outcome, retrieval_vars, analysis_vars, prev_csv,
                   runs_on_list, pct_vars>>

\* One iteration of the second loop (lines 191-194).
WriteRow ==
    /\ pc = "rows"
    /\ HasNext(pokemon_list)
    /\ LET i == pokemon_list.index + 1
       IN  /\ percentiles_csv' =
                 WriteLine(percentiles_csv, FormatRow(pokemon_list.pokemons[i]))
           /\ pokemon_list' = [pokemon_list EXCEPT !.index = i]
    /\ UNCHANGED <<pc, outcome, retrieval_vars, analysis_vars, prev_csv,
                   runs_on_list, pct_vars>>

\* The second loop ends, the file is closed and the function returns.
CloseCsv ==
    /\ pc = "rows"
    /\ ~HasNext(pokemon_list)
    /\ pc' = "idle"
    /\ outcome' = Returned("analyze_pokemon_data", 0, <<>>)
    /\ heights' = <<>>
    /\ weights' = <<>>
    /\ height_stats' = NoStats
    /\ weight_stats' = NoStats
    /\ UNCHANGED <<pokemon_list, retrieval_vars, percentiles_csv, prev_csv,
                   runs_on_list, pct_vars>>

----------------------------------------------------------------------------
(* display_pokemon *)

DisplayPokemon ==
    /\ pc = "idle"
    /\ \E id \in DisplayIds :
          outcome' =
              IF ReadCsvError(percentiles_csv) # ""
              THEN Raised("display_pokemon", id, ReadCsvError(percentiles_csv))
              ELSE LET pokemon == SelectById(ReadCsv(percentiles_csv), id)
                   IN  IF pokemon # <<>>
                       THEN Returned("display_pokemon", id, pokemon)
                       ELSE Returned("display_pokemon", id,
                                     <<NotFoundMessage(id)>>)
    /\ prev_csv' = Absent
    /\ UNCHANGED <<pc, pokemon_list, retrieval_vars, analysis_vars,
                   percentiles_csv, runs_on_list, pct_vars>>

----------------------------------------------------------------------------
(* The program *)

Next ==
    \/ GetPokemonListCall
    \/ FetchOk
    \/ FetchFail
    \/ GetPokemonListReturn
    \/ NewPokemonList
    \/ AnalyzeCall
    \/ PercentileStep
    \/ OpenCsv
    \/ WriteHeader
    \/ WriteRow
    \/ CloseCsv
    \/ DisplayPokemon

Spec == Init /\ [][Next]_vars

\* The event loop runs a retrieval that is under way: every request ends,
\* with a body or with an exception.
FairSpec ==
    Spec /\ WF_vars(FetchOk \/ FetchFail \/ GetPokemonListReturn)

----------------------------------------------------------------------------
(* Direct calls of calculate_percentile *)

InitPct ==
    /\ pc = "idle"
    /\ outcome = NoOutcome
    /\ pokemon_list = NoList
    /\ fetched = <<>>
    /\ pokemon_id = 0
    /\ exchanges = <<>>
    /\ heights = <<>>
    /\ weights = <<>>
    /\ height_stats = NoStats
    /\ weight_stats = NoStats
    /\ percentiles_csv = Absent
    /\ prev_csv = Absent
    /\ runs_on_list = 0
    /\ pct_data \in PopSeqs
    /\ pct_value \in PopValues
    /\ pct_result = NoneVal

CallPercentile ==
    /\ pct_result = NoneVal
    /\ pct_result' \in calculate_percentile(pct_data, pct_value)
    /\ UNCHANGED <<pc, outcome, pokemon_list, retrieval_vars, analysis_vars,
                   percentiles_csv, prev_csv, runs_on_list, pct_data,
                   pct_value>>

NextPct == CallPercentile

SpecPct == InitPct /\ [][NextPct]_vars

----------------------------------------------------------------------------
(* Properties of the retrieval *)

\* The ids whose request failed / was answered in the current retrieval.
FailedIds ==
    {exchanges[i].requested : i \in {j \in DOMAIN exchanges :
                                         exchanges[j].status # "ok"}}

FetchedIds ==
    {exchanges[i].requested : i \in {j \in DOMAIN exchanges :
                                         exchanges[j].status = "ok"}}

StrictlyAscending(pokemons) ==
    \A i, j \in DOMAIN pokemons :
        i < j => pokemons[i].poke_id < pokemons[j].poke_id

\* C1: when the fetch of an id k has failed, the retrieval still returns a
\* collection; it has one entry per id of the range but the failed ones
\* (range size - 1 for one failed id), none of them for a failed id.
C1_PartialFailure ==
    (pc = "idle" /\ FailedIds # {}) =>
        /\ pokemon_list # NoList
        /\ Len(pokemon_list.pokemons) = MAX_POKEMON - Cardinality(FailedIds)
        /\ \A i \in DOMAIN pokemon_list.pokemons :
              pokemon_list.pokemons[i].poke_id \notin FailedIds

\* C2, as claimed: whatever the remote source answers, the returned
\* collection is strictly ascending by record id (so no id occurs twice) and
\* has one record per id successfully fetched.
C2_AscendingAnyResponse ==
    (pc = "idle" /\ outcome.op = "get_pokemon_list"
                 /\ outcome.result = "returned") =>
        /\ Len(pokemon_list.pokemons) = Cardinality(FetchedIds)
        /\ StrictlyAscending(pokemon_list.pokemons)

\* C2, amended: the returned collection has one record per id successfully
\* fetched, in request order, the i-th record built from the body that
\* answered the request for id i; it is strictly ascending by record id when
\* every body carries the id that was requested.
C2_RequestOrder ==
    (pokemon_list # NoList /\ exchanges # <<>>) =>
        /\ Len(pokemon_list.pokemons) = Cardinality(FetchedIds)
        /\ Len(pokemon_list.pokemons) = Len(exchanges)
        /\ \A i \in DOMAIN exchanges :
              /\ exchanges[i].requested = i
              /\ pokemon_list.pokemons[i].poke_id = exchanges[i].body.id
              /\ pokemon_list.pokemons[i].height = exchanges[i].body.height
              /\ pokemon_list.pokemons[i].weight = exchanges[i].body.weight
        /\ (\A i \in DOMAIN exchanges :
                exchanges[i].body.id = exchanges[i].requested)
            => StrictlyAscending(pokemon_list.pokemons)

\* A retrieval has returned a collection whose bodies all echoed their ids.
C2_Witness ==
    /\ pc = "idle"
    /\ outcome.op = "get_pokemon_list"
    /\ outcome.result = "returned"
    /\ Len(pokemon_list.pokemons) = MAX_POKEMON
    /\ \A i \in DOMAIN exchanges :
          exchanges[i].body.id = exchanges[i].requested

\* C9: when the retrieval has ended, every id of the range has produced a
\* record or has been tried (and used up its retries).
C9_EveryIdTried ==
    (pc = "idle" /\ outcome.op = "get_pokemon_list") =>
        \A id \in 1..MAX_POKEMON : id \in FetchedIds \/ id \in FailedIds

\* A retrieval that was started ends, by a return or by an exception.
RetrievalEnds == (pc = "get_pokemon_list") ~> (pc = "idle")

----------------------------------------------------------------------------
(* Properties of calculate_percentile *)

CountEqual(a, v) == Cardinality({i \in DOMAIN a : a[i] = v})

InPopulation(a, v) == \E i \in DOMAIN a : a[i] = v

\* x rounded to two decimals, in hundredths.
Hundredths(x) == (x.num * 200 + x.den) \div (2 * x.den)

\* C3, as claimed: for a value v of a non-empty population of N values the
\* percentile rank is 100 * (count less than v + half the count equal to
\* v) / N; [1, 2, 3] gives 16.67, 50.0 and 83.33.
C3_MeanRank ==
    (pct_result # NoneVal /\ InPopulation(pct_data, pct_value)) =>
        /\ pct_result.kind = "float"
        /\ pct_result.num * 2 * Len(pct_data) =
               pct_result.den * 100 * (2 * CountLess(pct_data, pct_value)
                                       + CountEqual(pct_data, pct_value))
        /\ pct_data = <<1, 2, 3>> =>
               Hundredths(pct_result) =
                   CASE pct_value = 1 -> 1667
                     [] pct_value = 2 -> 5000
                     [] pct_value = 3 -> 8333

\* C3, amended: the percentile rank is 100 * (count less than v + half of
\* (the count equal to v, plus one)) / N; [1, 2, 3] gives 33.33, 66.67 and
\* 100.0.
C3_Rank ==
    (pct_result # NoneVal /\ InPopulation(pct_data, pct_value)) =>
        /\ pct_result.kind = "float"
        /\ pct_result.num * 2 * Len(pct_data) =
               pct_result.den * 100 * (2 * CountLess(pct_data, pct_value)
                                       + CountEqual(pct_data, pct_value) + 1)
        /\ pct_data = <<1, 2, 3>> =>
               Hundredths(pct_result) =
                   CASE pct_value = 1 -> 3333
                     [] pct_value = 2 -> 6667
                     [] pct_value = 3 -> 10000

\* The percentile of 1 in [1, 2, 3] has been computed.
C3_Witness ==
    pct_data = <<1, 2, 3>> /\ pct_value = 1 /\ pct_result.kind = "float"

\* C4: the percentile rank of the single value of a population of size 1
\* is exactly 100.
C4_SingleValue ==
    (pct_result # NoneVal /\ Len(pct_data) = 1 /\ pct_value = pct_data[1]) =>
        (pct_result.kind = "float" /\ pct_result.num = 100
                                   /\ pct_result.den = 1)

\* The percentile of the value of a one-value population has been computed.
C4_Witness ==
    Len(pct_data) = 1 /\ pct_value = pct_data[1] /\ pct_result # NoneVal

----------------------------------------------------------------------------
(* Properties of analyze_pokemon_data and display_pokemon *)

AnalysisDone ==
    pc = "idle" /\ outcome.op = "analyze_pokemon_data"
                /\ outcome.result = "returned"

\* The whole population of the caller's list, read off its records.
AllHeights == [i \in DOMAIN pokemon_list.pokemons |->
                  pokemon_list.pokemons[i].height]

AllWeights == [i \in DOMAIN pokemon_list.pokemons |->
                  pokemon_list.pokemons[i].weight]

\* C5: the analysis of an empty collection ends with EmptyPopulationError
\* and leaves the percentile store as it was.
C5_EmptyPopulationError ==
    (pc = "idle" /\ outcome.op = "analyze_pokemon_data"
                 /\ Len(pokemon_list.pokemons) = 0) =>
        /\ outcome.result = "raised"
        /\ outcome.error = "EmptyPopulationError"
        /\ percentiles_csv = prev_csv

\* C6: the percentiles of a record are None until an analysis of its
\* collection has started its percentile pass, and a percentile that is set
\* is the one computed against the heights (weights) of all the records of
\* the collection.
C6_WholePopulation ==
    /\ \A i \in DOMAIN fetched :
          /\ fetched[i].height_percentile = NoneVal
          /\ fetched[i].weight_percentile = NoneVal
    /\ pokemon_list # NoList =>
          \A i \in DOMAIN pokemon_list.pokemons :
              LET p == pokemon_list.pokemons[i]
              IN  /\ runs_on_list = 0 =>
                        /\ p.height_percentile = NoneVal
                        /\ p.weight_percentile = NoneVal
                  /\ p.height_percentile # NoneVal =>
                        p.height_percentile =
                            percentileofscore(AllHeights, p.height)
                  /\ p.weight_percentile # NoneVal =>
                        p.weight_percentile =
                            percentileofscore(AllWeights, p.weight)

\* The percentile pass is under way: the first record has its percentiles,
\* the last one has none yet.
C6_Witness ==
    /\ pc = "percentiles"
    /\ Len(pokemon_list.pokemons) >= 2
    /\ pokemon_list.pokemons[1].height_percentile # NoneVal
    /\ pokemon_list.pokemons[Len(pokemon_list.pokemons)].height_percentile
           = NoneVal

\* C7: after an analysis the store holds the header and rows of the analysed
\* collection only, as many as it has records, whatever the store held before;
\* a second analysis of the same collection leaves the store as the first did.
C7_FullReplace ==
    AnalysisDone =>
        /\ percentiles_csv.exists
        /\ Len(percentiles_csv.lines) = 1 + Len(pokemon_list.pokemons)
        /\ percentiles_csv.lines[1] = Header
        /\ \A i \in 2..Len(percentiles_csv.lines) :
              \E j \in DOMAIN pokemon_list.pokemons :
                  percentiles_csv.lines[i] = FormatRow(pokemon_list.pokemons[j])
        /\ runs_on_list >= 2 => percentiles_csv = prev_csv

\* An analysis is done on a store that held a row of another collection.
C7_Witness ==
    /\ AnalysisDone
    /\ runs_on_list = 1
    /\ \E i \in 2..Len(prev_csv.lines) :
          \A j \in DOMAIN pokemon_list.pokemons :
              prev_csv.lines[i] # FormatRow(pokemon_list.pokemons[j])

\* The lines of the store whose first cell is the id.
RowsOf(id) ==
    SelectSeq(Tail(percentiles_csv.lines), LAMBDA r : r[1] = ToString(id))

\* C8: display_pokemon(id) prints the rows of the id when the store has some,
\* prints the not-found message and returns when it has none, and raises when
\* the store cannot be read.
C8_Lookup ==
    (pc = "idle" /\ outcome.op = "display_pokemon") =>
        IF ~percentiles_csv.exists
        THEN outcome.result = "raised"
        ELSE /\ outcome.result = "returned"
             /\ RowsOf(outcome.arg) # <<>> =>
                    outcome.printed = RowsOf(outcome.arg)
             /\ RowsOf(outcome.arg) = <<>> =>
                    outcome.printed = <<NotFoundMessage(outcome.arg)>>

\* A lookup in a store with rows has reported not-found.
C8_Witness ==
    /\ pc = "idle"
    /\ outcome.op = "display_pokemon"
    /\ Len(percentiles_csv.lines) >= 2
    /\ outcome.printed = <<NotFoundMessage(outcome.arg)>>

\* C10: after an analysis the store is the header followed by one row per
\* record of the collection, in collection order, and every record (and row)
\* has both percentiles set.
C10_OneRowPerRecord ==
    AnalysisDone =>
        /\ percentiles_csv.lines =
               <<Header>> \o [i \in DOMAIN pokemon_list.pokemons |->
                                 FormatRow(pokemon_list.pokemons[i])]
        /\ \A i \in DOMAIN pokemon_list.pokemons :
              /\ pokemon_list.pokemons[i].height_percentile.kind = "float"
              /\ pokemon_list.pokemons[i].weight_percentile.kind = "float"
        /\ \A i \in 2..Len(percentiles_csv.lines) :
              /\ percentiles_csv.lines[i][2] # "None"
              /\ percentiles_csv.lines[i][3] # "None"

\* An analysis of a collection of two records or more is done.
C10_Witness == AnalysisDone /\ Len(pokemon_list.pokemons) >= 2

====
